---- MODULE Spec2Model ----
(***************************************************************************)
(* A model of the personal finance dashboard in src/main.py: the           *)
(* Transaction and Account classes, the JSON ledger store they persist to, *)
(* the ExchangeRate lookup that validates currency codes, and the menu     *)
(* loop of main().                                                         *)
(*                                                                         *)
(* Text is a sequence of one-character strings, so that str.lower(),      *)
(* str.upper(), str(date) and date.fromisoformat() are computed character *)
(* by character.  Amounts and budgets are integers.                        *)
(***************************************************************************)
EXTENDS Integers, Sequences, FiniteSets, TLC

VARIABLES
    file,      \* database.json: what is on disk
    remote,    \* the exchange-rate service: "unreachable" or "reachable"
    objs,      \* the Account objects the process holds, by the variable slot bound to each
    result,    \* the last call made and how it ended
    calls,     \* the number of calls made so far
    journal,   \* the arguments one account was created and written with, as the caller gave them
    shell,     \* main(): "menu" (prompting), "exited" (choice 5), "crashed" (uncaught exception)
    pc,        \* per process, its position inside the operation it is running
    local,     \* per process, the local variable `data` of save_to_file
    acked,     \* per account name, the record its owner's last completed operation wrote
    overlap    \* whether two processes were ever inside an operation at the same time

vars == <<file, remote, objs, result, calls, journal, shell, pc, local, acked, overlap>>

None == "None"

\* ---------------------------------------------------------------- bounds

\* The number of calls a run makes.
MaxCalls == 5
\* The number of variables holding Account objects in the process.
MaxObjs == 2
\* The number of transactions the journalled account is given.
MaxHistory == 3
\* The number of transactions each of the racing processes adds.
MaxRaceTx == 1

Slots == 1..MaxObjs

\* ---------------------------------------------------------------- text

LowerLetters ==
    <<"a","b","c","d","e","f","g","h","i","j","k","l","m",
      "n","o","p","q","r","s","t","u","v","w","x","y","z">>

UpperLetters ==
    <<"A","B","C","D","E","F","G","H","I","J","K","L","M",
      "N","O","P","Q","R","S","T","U","V","W","X","Y","Z">>

DigitChars == <<"0","1","2","3","4","5","6","7","8","9">>

IndexIn(c, letters) ==
    IF \E i \in 1..Len(letters) : letters[i] = c
    THEN CHOOSE i \in 1..Len(letters) : letters[i] = c
    ELSE 0

\* The lower-case letter of each upper-case letter, and the other way round.
LowerOf == [c \in {UpperLetters[i] : i \in 1..26} |-> LowerLetters[IndexIn(c, UpperLetters)]]

UpperOf == [c \in {LowerLetters[i] : i \in 1..26} |-> UpperLetters[IndexIn(c, LowerLetters)]]

\* str.lower() on one character: an upper-case letter becomes its lower-case
\* letter, everything else is kept.
LowerChar(c) == IF c \in DOMAIN LowerOf THEN LowerOf[c] ELSE c

\* str.upper() on one character.
UpperChar(c) == IF c \in DOMAIN UpperOf THEN UpperOf[c] ELSE c

Lower(s) == [i \in 1..Len(s) |-> LowerChar(s[i])]

Upper(s) == [i \in 1..Len(s) |-> UpperChar(s[i])]

\* str.strip(): leading and trailing blanks removed.
RECURSIVE StripLeft(_)
StripLeft(s) == IF s # <<>> /\ Head(s) = " " THEN StripLeft(Tail(s)) ELSE s

RECURSIVE StripRight(_)
StripRight(s) ==
    IF s # <<>> /\ s[Len(s)] = " " THEN StripRight(SubSeq(s, 1, Len(s) - 1)) ELSE s

Strip(s) == StripRight(StripLeft(s))

\* ---------------------------------------------------------------- dates

\* A datetime.date.
Date(y, m, d) == [year |-> y, month |-> m, day |-> d]

Digit(n) == DigitChars[n + 1]

DigitOf == [c \in {DigitChars[i] : i \in 1..10} |-> IndexIn(c, DigitChars) - 1]

DigitValue(c) == DigitOf[c]

IsDigit(c) == c \in DOMAIN DigitOf

IsLeap(y) == (y % 4 = 0 /\ y % 100 # 0) \/ y % 400 = 0

DaysInMonth(y, m) ==
    IF m = 2 THEN (IF IsLeap(y) THEN 29 ELSE 28)
    ELSE IF m \in {4, 6, 9, 11} THEN 30 ELSE 31

\* str(date): date.isoformat(), YYYY-MM-DD with the fields zero-padded.
IsoFormat(date) ==
    <<Digit(date.year \div 1000), Digit((date.year \div 100) % 10),
      Digit((date.year \div 10) % 10), Digit(date.year % 10), "-",
      Digit(date.month \div 10), Digit(date.month % 10), "-",
      Digit(date.day \div 10), Digit(date.day % 10)>>

ParsedYear(s) ==
    DigitValue(s[1]) * 1000 + DigitValue(s[2]) * 100 + DigitValue(s[3]) * 10 + DigitValue(s[4])

ParsedMonth(s) == DigitValue(s[6]) * 10 + DigitValue(s[7])

ParsedDay(s) == DigitValue(s[9]) * 10 + DigitValue(s[10])

\* Whether date.fromisoformat(s) accepts s as YYYY-MM-DD.
IsIsoDate(s) ==
    /\ Len(s) = 10
    /\ s[5] = "-" /\ s[8] = "-"
    /\ \A i \in {1, 2, 3, 4, 6, 7, 9, 10} : IsDigit(s[i])
    /\ ParsedYear(s) >= 1
    /\ ParsedMonth(s) \in 1..12
    /\ ParsedDay(s) \in 1..DaysInMonth(ParsedYear(s), ParsedMonth(s))

\* datetime.date.fromisoformat(s), for an s it accepts.
FromIsoFormat(s) == Date(ParsedYear(s), ParsedMonth(s), ParsedDay(s))

\* ---------------------------------------------------------------- Transaction

\* A Transaction that keeps the description as it was typed.
Transaction_KeepsCase(description, amount, date) ==
    [description |-> description, amount |-> amount, date |-> IsoFormat(date)]

\* Transaction.__init__: the description lowercased, the date as str(date).
Transaction(description, amount, date) ==
    [description |-> Lower(description), amount |-> amount, date |-> IsoFormat(date)]

\* Transaction.to_dict.
to_dict(t) == [description |-> t.description, amount |-> t.amount, date |-> t.date]

\* ---------------------------------------------------------------- ExchangeRate

USD == <<"U","S","D">>
INR == <<"I","N","R">>
PKR == <<"P","K","R">>
JPY == <<"J","P","Y">>
EUR == <<"E","U","R">>

\* The table get_data returns when the request fails.
FallbackRates == [c \in {USD, INR, PKR, JPY} |->
    IF c = USD THEN 1 ELSE IF c = INR THEN 74 ELSE IF c = PKR THEN 160 ELSE 110]

\* What the service answers while it is reachable: its 'rates' field.  The
\* table lists EUR, which the fallback table does not, and not PKR, which the
\* fallback table does.
ServedRates == [c \in {USD, INR, JPY, EUR} |-> 1]

RemoteStates == {"unreachable", "reachable"}

\* get_data without the except branch's table: the served table whatever happens.
get_data_NoFallback(rem) == ServedRates

\* ExchangeRate.get_data: the served rates, or the fallback table when the
\* request raises a RequestException.
get_data(rem) == IF rem = "unreachable" THEN FallbackRates ELSE ServedRates

\* ExchangeRate.list_currency: the keys of get_data's result.
list_currency(rem) == DOMAIN get_data(rem)

\* ---------------------------------------------------------------- the store

EmptyDict == <<>>

\* database.json.  kind is "missing" (no file), "empty" (a file of no bytes, as
\* open(FILE, 'w') leaves it), "undecodable" (bytes that are no text in the
\* file's encoding), "invalid_json" (text that is no JSON document), "array"
\* (the JSON document []) or "object" (a JSON object, held in data as a mapping
\* from account name to record).
FileOf(kind, data) == [kind |-> kind, data |-> data]

MissingFile == FileOf("missing", EmptyDict)

\* What a call returns or raises.  type is the Python type of the value.
Returned(type, value) == [raised |-> "none", type |-> type, value |-> value]

Raised(exception) == [raised |-> exception, type |-> None, value |-> EmptyDict]

\* Account.load_data: open + json.load.  FileNotFoundError and JSONDecodeError
\* are caught and give {}; the UnicodeDecodeError of a file that is not text is
\* neither; a JSON document that is no object is returned as it is.
load_data(f) ==
    CASE f.kind = "missing" -> Returned("dict", EmptyDict)
      [] f.kind = "empty" -> Returned("dict", EmptyDict)
      [] f.kind = "invalid_json" -> Returned("dict", EmptyDict)
      [] f.kind = "undecodable" -> Raised("UnicodeDecodeError")
      [] f.kind = "array" -> Returned("list", EmptyDict)
      [] OTHER -> Returned("dict", f.data)

\* Account.list_accounts: list(load_data().keys()).
list_accounts(f) ==
    LET r == load_data(f) IN
    IF r.raised # "none" THEN r
    ELSE IF r.type # "dict" THEN Raised("AttributeError")
    ELSE Returned("list", DOMAIN r.value)

\* dict assignment d[k] = v.
DictSet(d, k, v) == [x \in DOMAIN d \cup {k} |-> IF x = k THEN v ELSE d[x]]

\* ---------------------------------------------------------------- Account

AccountOf(name, budget, currency, transactions) ==
    [name |-> name, budget |-> budget, currency |-> currency, transactions |-> transactions]

\* A record that leaves the last transaction of the account out.
RecordOf_DropsLast(acc) ==
    [budget |-> acc.budget, currency |-> acc.currency,
     transactions |-> [i \in 1..(Len(acc.transactions) - 1) |-> to_dict(acc.transactions[i])]]

\* The record save_to_file stores for an account (lines 52-56).
RecordOf(acc) ==
    [budget |-> acc.budget, currency |-> acc.currency,
     transactions |-> [i \in 1..Len(acc.transactions) |-> to_dict(acc.transactions[i])]]

\* The list comprehension of line 31: one Transaction per stored record.
LoadTransactions(stored) ==
    [i \in 1..Len(stored) |->
        Transaction(stored[i].description, stored[i].amount, FromIsoFormat(stored[i].date))]

\* __init__ that keeps the supplied budget and currency when the name is stored.
InitFields_AdoptsArguments(f, rem, name, budget, currency) ==
    LET nm == Lower(name)
        loaded == load_data(f)
    IN  IF Upper(currency) \notin list_currency(rem) THEN Raised("ValueError")
        ELSE IF loaded.raised # "none" THEN loaded
        ELSE IF loaded.type = "dict" /\ nm \in DOMAIN loaded.value
        THEN Returned("Account",
                AccountOf(nm, budget, Upper(currency),
                          LoadTransactions(loaded.value[nm].transactions)))
        ELSE Returned("Account", AccountOf(nm, budget, Upper(currency), <<>>))

\* Account.__init__ up to its call of save_to_file (lines 21-36): the currency
\* check, then the fields from the stored record of the name or from the
\* arguments.
InitFields(f, rem, name, budget, currency) ==
    LET nm == Lower(name)
        loaded == load_data(f)
    IN  IF Upper(currency) \notin list_currency(rem) THEN Raised("ValueError")
        ELSE IF loaded.raised # "none" THEN loaded
        ELSE IF loaded.type = "dict" /\ nm \in DOMAIN loaded.value
        THEN IF \E i \in 1..Len(loaded.value[nm].transactions) :
                    ~IsIsoDate(loaded.value[nm].transactions[i].date)
             THEN Raised("ValueError")
             ELSE Returned("Account",
                    AccountOf(nm, loaded.value[nm].budget, loaded.value[nm].currency,
                              LoadTransactions(loaded.value[nm].transactions)))
        ELSE Returned("Account", AccountOf(nm, budget, Upper(currency), <<>>))

\* save_to_file that starts from an empty mapping instead of the loaded store.
SaveData_NoLoad(acc, f) == Returned("dict", DictSet(EmptyDict, acc.name, RecordOf(acc)))

\* save_to_file, lines 51-56: the loaded store with this account's entry set.
SaveData(acc, f) ==
    LET loaded == load_data(f) IN
    IF loaded.raised # "none" THEN loaded
    ELSE IF loaded.type # "dict" THEN Raised("TypeError")
    ELSE Returned("dict", DictSet(loaded.value, acc.name, RecordOf(acc)))

\* save_to_file, lines 57-59: the file rewritten with the whole mapping.
WriteFile(data) == FileOf("object", data)

\* Account.save_to_file: the file it leaves, or what it raises.
save_to_file(acc, f) ==
    LET d == SaveData(acc, f) IN
    IF d.raised # "none" THEN d ELSE Returned("file", WriteFile(d.value))

\* Account.balance.
RECURSIVE SumFrom(_, _, _)
SumFrom(ts, i, total) ==
    IF i > Len(ts) THEN total ELSE SumFrom(ts, i + 1, total + ts[i].amount)

\* balance that leaves the first transaction out of the sum.
balance_SkipsFirst(acc) == acc.budget - SumFrom(acc.transactions, 2, 0)

balance(acc) == acc.budget - SumFrom(acc.transactions, 1, 0)

\* Account.add_transaction, line 44: the account with the Transaction appended.
Appended(acc, description, amount, date) ==
    [acc EXCEPT !.transactions = Append(@, Transaction(description, amount, date))]

\* ---------------------------------------------------------------- inputs

\* The arguments accounts are constructed with.
ConstructInputs ==
    {[name |-> <<"A">>, budget |-> 100, currency |-> <<"u","s","d">>],
     [name |-> <<"a">>, budget |-> 999, currency |-> <<"P","k","R">>],
     [name |-> <<"B">>, budget |-> 999, currency |-> <<"E","u","r">>],
     [name |-> <<"b">>, budget |-> 100, currency |-> <<"x","y","z">>]}

\* The arguments add_transaction is called with.
TxInputs ==
    {[description |-> <<"T","e","a">>, amount |-> 3, date |-> Date(2024, 2, 29)],
     [description |-> <<"p","a","y">>, amount |-> -2, date |-> Date(987, 12, 1)]}

\* ---------------------------------------------------------------- one process

NoCall == [op |-> "none", raised |-> "none"]

\* How a call on an account ends: what it raised, the account object, the file.
Outcome(raised, account, f) == [raised |-> raised, account |-> account, file |-> f]

\* __init__ that saves before it checks the currency.
AccountInit_SavesFirst(f, rem, name, budget, currency) ==
    LET acc == AccountOf(Lower(name), budget, Upper(currency), <<>>)
        saved == save_to_file(acc, f)
    IN  IF Upper(currency) \notin list_currency(rem)
        THEN Outcome("ValueError", EmptyDict, saved.value)
        ELSE Outcome("none", acc, saved.value)

\* Account.__init__ as a whole (lines 20-38): the fields, then save_to_file.
\* When it raises, no object comes into being and the file is as it was.
AccountInit(f, rem, name, budget, currency) ==
    LET made == InitFields(f, rem, name, budget, currency)
        saved == save_to_file(made.value, f)
    IN  IF made.raised # "none" THEN Outcome(made.raised, EmptyDict, f)
        ELSE IF saved.raised # "none" THEN Outcome(saved.raised, EmptyDict, f)
        ELSE Outcome("none", made.value, saved.value)

\* Account.add_transaction as a whole (lines 43-45): the append, then
\* save_to_file.  When the save raises, the append has happened.
add_transaction(acc, f, description, amount, date) ==
    LET appended == Appended(acc, description, amount, date)
        saved == save_to_file(appended, f)
    IN  IF saved.raised # "none" THEN Outcome(saved.raised, appended, f)
        ELSE Outcome("none", appended, saved.value)

\* account = Account(name, budget, currency), bound to slot o when it returns.
Construct(o, name, budget, currency) ==
    LET out == AccountInit(file, remote, name, budget, currency)
        call == [op |-> "construct", slot |-> o, name |-> name, budget |-> budget,
                 currency |-> currency]
    IN  /\ result' = call @@ [raised |-> out.raised]
        /\ file' = out.file
        /\ objs' = IF out.raised = "none" THEN DictSet(objs, o, out.account) ELSE objs

\* objs[o].add_transaction(description, amount, date).
AddTransaction(o, tx) ==
    /\ o \in DOMAIN objs
    /\ LET out == add_transaction(objs[o], file, tx.description, tx.amount, tx.date)
       IN  /\ result' = [op |-> "add", slot |-> o, tx |-> tx, raised |-> out.raised]
           /\ file' = out.file
           /\ objs' = [objs EXCEPT ![o] = out.account]

\* objs[o].balance().
Balance(o) ==
    /\ o \in DOMAIN objs
    /\ result' = [op |-> "balance", slot |-> o, raised |-> "none", value |-> balance(objs[o])]
    /\ UNCHANGED <<file, objs>>

\* The exchange-rate service goes down or comes back.
SetRemote(r) ==
    /\ remote # r
    /\ remote' = r

\* One more call, while the run may make one.
Called ==
    /\ calls < MaxCalls
    /\ calls' = calls + 1

NoProcesses == UNCHANGED <<pc, local, acked, overlap>>

Init ==
    /\ file = MissingFile
    /\ remote \in RemoteStates
    /\ objs = EmptyDict
    /\ result = NoCall
    /\ calls = 0
    /\ journal = <<>>
    /\ shell = "menu"
    /\ pc = <<>>
    /\ local = <<>>
    /\ acked = <<>>
    /\ overlap = FALSE

DoConstruct ==
    /\ Called
    /\ \E o \in Slots, a \in ConstructInputs : Construct(o, a.name, a.budget, a.currency)
    /\ UNCHANGED <<remote, journal, shell>>
    /\ NoProcesses

DoAddTransaction ==
    /\ Called
    /\ \E o \in Slots, tx \in TxInputs : AddTransaction(o, tx)
    /\ UNCHANGED <<remote, journal, shell>>
    /\ NoProcesses

DoBalance ==
    /\ Called
    /\ \E o \in Slots : Balance(o)
    /\ UNCHANGED <<remote, journal, shell>>
    /\ NoProcesses

DoSetRemote ==
    /\ \E r \in RemoteStates : SetRemote(r)
    /\ UNCHANGED <<file, objs, result, calls, journal, shell>>
    /\ NoProcesses

Next ==
    \/ DoConstruct
    \/ DoAddTransaction
    \/ DoBalance
    \/ DoSetRemote

Spec == Init /\ [][Next]_vars

\* ---------------------------------------------------------------- claims, one process

\* The step is a call (every call is counted).
IsCall == calls' = calls + 1

\* The step is a call of Account(...).
IsConstruct == IsCall /\ result'.op = "construct"

\* The names stored in a file.
StoredNames(f) == DOMAIN f.data

\* The account a stored record describes.
StoredAccount(f, nm) ==
    AccountOf(nm, f.data[nm].budget, f.data[nm].currency, f.data[nm].transactions)

\* The account name a call is about.
TargetOf(call, accounts) ==
    IF call.op = "construct" THEN Lower(call.name) ELSE accounts[call.slot].name

\* C3 as stated: constructing an Account whose name is a key of the store
\* yields, whatever budget and currency are supplied, an account with the
\* budget, currency and transactions of the stored record.
C3_AnyArguments ==
    [][(IsConstruct /\ Lower(result'.name) \in StoredNames(file))
         => /\ result'.raised = "none"
            /\ objs'[result'.slot] = StoredAccount(file, Lower(result'.name))]_vars

\* C3 amended: constructing an Account whose name is a key of the store, with
\* a supplied currency whose uppercased code the Rate Lookup currently lists,
\* yields an account with the budget, currency and transactions of the
\* stored record, whatever the supplied budget and currency are.
C3_ValidArguments ==
    [][(/\ IsConstruct
        /\ Lower(result'.name) \in StoredNames(file)
        /\ Upper(result'.currency) \in list_currency(remote))
         => /\ result'.raised = "none"
            /\ objs'[result'.slot] = StoredAccount(file, Lower(result'.name))]_vars

\* A stored account was constructed again with another budget and another
\* currency, and the object has the stored ones and the stored transaction.
C3_Witness ==
    /\ result.op = "construct" /\ result.raised = "none"
    /\ result.budget = 999 /\ Upper(result.currency) = PKR
    /\ objs[result.slot].budget = 100 /\ objs[result.slot].currency = USD
    /\ Len(objs[result.slot].transactions) = 1

\* C4: Account(...) raises the invalid-currency error exactly when the
\* uppercased currency is not a key the Rate Lookup returns at that moment;
\* with the service unreachable the accepted codes are exactly USD, INR, PKR
\* and JPY in any letter case.
C4_CurrencyValidated ==
    [][IsConstruct
         => /\ (result'.raised = "ValueError")
                  <=> (Upper(result'.currency) \notin DOMAIN get_data(remote))
            /\ remote = "unreachable"
                  => ((result'.raised = "none")
                        <=> (Upper(result'.currency) \in {USD, INR, PKR, JPY}))]_vars

\* With the service unreachable, a mixed-case PKR was accepted.
C4_Witness ==
    /\ remote = "unreachable"
    /\ result.op = "construct" /\ result.raised = "none"
    /\ result.currency = <<"P","k","R">>
    /\ objs[result.slot].currency = PKR
    /\ calls = 1

\* C7: the stored transaction list of every account only grows at its end:
\* each step keeps every stored account and leaves its list unchanged or
\* extended by one transaction.
C7_AppendOnly ==
    [][\A n \in StoredNames(file) :
          /\ n \in StoredNames(file')
          /\ LET old == file.data[n].transactions
                 new == file'.data[n].transactions
             IN  \/ new = old
                 \/ /\ Len(new) = Len(old) + 1
                    /\ SubSeq(new, 1, Len(old)) = old]_vars

\* C9: a call about account n leaves the stored record of every other name
\* as it was and adds no name but n; no stored name disappears.
C9_Frame ==
    [][IsCall
         => /\ \A n \in StoredNames(file) :
                  /\ n \in StoredNames(file')
                  /\ (result'.op = "balance" \/ n # TargetOf(result', objs'))
                        => file'.data[n] = file.data[n]
            /\ \A n \in StoredNames(file') \ StoredNames(file) :
                  result'.op # "balance" /\ n = TargetOf(result', objs')]_vars

\* A transaction was added to one of two stored accounts.
C9_Witness ==
    /\ result.op = "add" /\ result.raised = "none"
    /\ Cardinality(StoredNames(file)) = 2
    /\ \E n \in StoredNames(file) :
          n # objs[result.slot].name /\ Len(file.data[n].transactions) > 0

\* C10: when Account(...) raises the invalid-currency error the store is left
\* exactly as it was, and no object is bound.
C10_FailedConstructNoEffect ==
    [][(IsConstruct /\ result'.raised = "ValueError") => (file' = file /\ objs' = objs)]_vars

\* Account(...) raised for a name that is stored with a transaction.
C10_Witness ==
    /\ result.op = "construct" /\ result.raised = "ValueError"
    /\ Lower(result.name) \in StoredNames(file)
    /\ Len(file.data[Lower(result.name)].transactions) > 0

\* ---------------------------------------------------------------- one account's history

\* One account is constructed with valid arguments in an empty store, given
\* transactions, and then constructed again under the same name; journal keeps
\* the arguments as the caller gave them.

Valid(currency) == Upper(currency) \in list_currency(remote)

LedgerInit ==
    /\ file = MissingFile
    /\ remote \in RemoteStates
    /\ objs = EmptyDict
    /\ result = NoCall
    /\ calls = 0
    /\ journal \in {[args |-> a, txs |-> <<>>] : a \in ConstructInputs}
    /\ shell = "menu"
    /\ pc = <<>>
    /\ local = <<>>
    /\ acked = <<>>
    /\ overlap = FALSE

LedgerOpen ==
    /\ 1 \notin DOMAIN objs
    /\ Valid(journal.args.currency)
    /\ Construct(1, journal.args.name, journal.args.budget, journal.args.currency)
    /\ UNCHANGED <<remote, calls, journal, shell>>
    /\ NoProcesses

LedgerAdd ==
    /\ 2 \notin DOMAIN objs
    /\ Len(journal.txs) < MaxHistory
    /\ \E tx \in TxInputs :
          /\ AddTransaction(1, tx)
          /\ journal' = [journal EXCEPT !.txs = Append(@, tx)]
    /\ UNCHANGED <<remote, calls, shell>>
    /\ NoProcesses

LedgerReload ==
    /\ 1 \in DOMAIN objs
    /\ \E a \in ConstructInputs :
          /\ Lower(a.name) = Lower(journal.args.name)
          /\ Valid(a.currency)
          /\ Construct(2, a.name, a.budget, a.currency)
    /\ UNCHANGED <<remote, calls, journal, shell>>
    /\ NoProcesses

LedgerBalance ==
    /\ \E o \in Slots : Balance(o)
    /\ UNCHANGED <<remote, calls, journal, shell>>
    /\ NoProcesses

LedgerSetRemote ==
    /\ \E r \in RemoteStates : SetRemote(r)
    /\ UNCHANGED <<file, objs, result, calls, journal, shell>>
    /\ NoProcesses

LedgerNext ==
    \/ LedgerOpen
    \/ LedgerAdd
    \/ LedgerReload
    \/ LedgerBalance
    \/ LedgerSetRemote

LedgerSpec == LedgerInit /\ [][LedgerNext]_vars

\* What the journalled arguments should read back as: the name lowercased, the
\* budget as given, the currency uppercased, and per transaction the
\* description lowercased, the amount, and the date as YYYY-MM-DD.
Journalled ==
    AccountOf(Lower(journal.args.name), journal.args.budget, Upper(journal.args.currency),
              [i \in 1..Len(journal.txs) |->
                  [description |-> Lower(journal.txs[i].description),
                   amount |-> journal.txs[i].amount,
                   date |-> IsoFormat(journal.txs[i].date)]])

\* C1: constructing the account again under its name succeeds and yields the
\* budget and currency it was created with and exactly the transactions
\* added, in the order added, descriptions lowercased, each date reading back
\* as the date that was given.
C1_RoundTrip ==
    /\ (result.op = "construct" /\ result.slot = 2) => result.raised = "none"
    /\ 2 \in DOMAIN objs =>
          /\ objs[2] = Journalled
          /\ file.data[objs[2].name] = RecordOf(Journalled)
          /\ \A i \in 1..Len(journal.txs) :
                FromIsoFormat(objs[2].transactions[i].date) = journal.txs[i].date

\* The account was reloaded with three transactions, two of them different,
\* by a call that supplied another budget and currency.
C1_Witness ==
    /\ 2 \in DOMAIN objs
    /\ result.op = "construct" /\ result.slot = 2
    /\ result.budget # journal.args.budget
    /\ Upper(result.currency) # Upper(journal.args.currency)
    /\ Len(objs[2].transactions) = 3
    /\ objs[2].transactions[1] # objs[2].transactions[2]

RECURSIVE TotalAmount(_)
TotalAmount(txs) == IF txs = <<>> THEN 0 ELSE txs[1].amount + TotalAmount(Tail(txs))

\* C2: after any sequence of add_transaction calls the balance of the account
\* is its budget minus the sum of the amounts added, balance() returns it, and
\* balance() changes neither the account nor the store.
C2_Balance ==
    [][/\ \A o \in DOMAIN objs' :
             balance(objs'[o]) = journal'.args.budget - TotalAmount(journal'.txs)
       /\ result'.op = "balance"
             => /\ result'.value = journal.args.budget - TotalAmount(journal.txs)
                /\ objs' = objs
                /\ file' = file]_vars

\* balance() was called after a positive and a negative amount were added.
C2_Witness ==
    /\ result.op = "balance"
    /\ Len(objs[result.slot].transactions) = 2
    /\ objs[result.slot].transactions[1].amount = 3
    /\ objs[result.slot].transactions[2].amount = -2
    /\ result.value = objs[result.slot].budget - 1

\* balance() was called on an account without transactions.
C2_WitnessEmpty ==
    /\ result.op = "balance"
    /\ objs[result.slot].transactions = <<>>
    /\ result.value = objs[result.slot].budget

\* ---------------------------------------------------------------- reading the store

\* The store file is whatever was left on disk; the process loads it and lists
\* its accounts.

SampleRecords ==
    {RecordOf(AccountOf(<<"a">>, b, c, txs)) :
        b \in {100, 999}, c \in {USD, PKR},
        txs \in {<<>>, <<Transaction(<<"T","e","a">>, 3, Date(2024, 2, 29))>>}}

SampleStores ==
    UNION {[names -> SampleRecords] : names \in SUBSET {<<"a">>, <<"b">>}}

FileStates ==
    {FileOf(kind, EmptyDict) : kind \in {"missing", "empty", "undecodable", "invalid_json", "array"}}
        \cup {FileOf("object", d) : d \in SampleStores}

LoadInit ==
    /\ file \in FileStates
    /\ remote = "unreachable"
    /\ objs = EmptyDict
    /\ result = NoCall
    /\ calls = 0
    /\ journal = <<>>
    /\ shell = "menu"
    /\ pc = <<>>
    /\ local = <<>>
    /\ acked = <<>>
    /\ overlap = FALSE

\* Account.load_data().
LoadData ==
    /\ result' = [op |-> "load_data"] @@ load_data(file)
    /\ UNCHANGED <<file, remote, objs, calls, journal, shell>>
    /\ NoProcesses

\* Account.list_accounts().
ListAccounts ==
    /\ result' = [op |-> "list_accounts"] @@ list_accounts(file)
    /\ UNCHANGED <<file, remote, objs, calls, journal, shell>>
    /\ NoProcesses

LoadNext ==
    \/ LoadData
    \/ ListAccounts

LoadSpec == LoadInit /\ [][LoadNext]_vars

\* The call ended with an empty mapping (load_data) or an empty list
\* (list_accounts), and raised nothing.
EmptyAnswer ==
    /\ result.raised = "none"
    /\ result.op = "load_data" => (result.type = "dict" /\ result.value = EmptyDict)
    /\ result.op = "list_accounts" => (result.type = "list" /\ result.value = {})

\* C5: whenever the store file is missing or holds anything but a well-formed
\* store, load_data returns an empty mapping, list_accounts an empty list, and
\* neither raises.
C5_FailsSoft ==
    (file.kind # "object" /\ result.op # "none") => EmptyAnswer

\* The part of C5 the except clause of load_data does cover: a missing file
\* and text that is no JSON document.
C5_CaughtCases ==
    (file.kind \in {"missing", "empty", "invalid_json"} /\ result.op # "none") => EmptyAnswer

\* ---------------------------------------------------------------- main()

\* What the user types.  A number typed at a prompt is the number float()
\* makes of it, or text float() rejects.
Typed(value) == [numeric |-> TRUE, value |-> value]

NotANumber == [numeric |-> FALSE, value |-> 0]

CreateEntries ==
    {[name |-> <<"A">>, budget |-> Typed(100), currency |-> <<>>],
     [name |-> <<" ","B"," ">>, budget |-> Typed(999), currency |-> <<"E","u","r">>],
     [name |-> <<"b">>, budget |-> Typed(100), currency |-> <<"x","y","z">>],
     [name |-> <<"A">>, budget |-> NotANumber, currency |-> USD]}

NameEntries == {<<"a"," ">>, <<"B">>, <<"c">>}

DateEntries == {<<>>, <<"2","0","2","4","-","0","2","-","2","9">>, <<"x">>}

AmountEntries == {Typed(3), NotANumber}

\* datetime.date.today() on the day the program runs.
Today == Date(2026, 11, 5)

\* What one pass of the menu loop leaves in result: the choice, what the
\* Account constructor raised in it ("none" when it was not called or
\* returned), and what was printed.
Pass(op, raised, printed) == [op |-> op, raised |-> raised, printed |-> printed]

\* ValueError and its subclasses, which `except ValueError` catches.
IsValueError(exception) == exception \in {"ValueError", "UnicodeDecodeError"}

\* Choice 1 (lines 105-117).
ShellCreate(e) ==
    IF ~e.budget.numeric
    THEN /\ result' = Pass("1", "none", "Invalid budget")
         /\ UNCHANGED <<file, objs, shell>>
    ELSE LET typed == Strip(e.currency)
             currency == IF typed = <<>> THEN USD ELSE typed
             out == AccountInit(file, remote, Strip(e.name), e.budget.value, currency)
         IN  /\ file' = out.file
             /\ objs' = IF out.raised = "none" THEN DictSet(objs, 1, out.account) ELSE objs
             /\ IF out.raised = "none"
                THEN result' = Pass("1", "none", "created") /\ shell' = "menu"
                ELSE IF IsValueError(out.raised)
                THEN result' = Pass("1", out.raised, "error message") /\ shell' = "menu"
                ELSE result' = Pass("1", out.raised, "traceback") /\ shell' = "crashed"

\* Choice 2 (lines 119-126).
ShellList ==
    LET names == list_accounts(file) IN
    /\ IF names.raised # "none"
       THEN result' = Pass("2", "none", "traceback") /\ shell' = "crashed"
       ELSE result' = Pass("2", "none", "accounts") /\ shell' = "menu"
    /\ UNCHANGED <<file, objs>>

\* Lines 131 and 153: name.lower() in data.
Found(data, name) == data.type = "dict" /\ Lower(name) \in DOMAIN data.value

\* Choice 3 (lines 128-148).
ShellAdd(name, dateEntry, amountEntry) ==
    LET data == load_data(file)
        nm == Lower(name)
        date == IF dateEntry = <<>> THEN Today ELSE FromIsoFormat(dateEntry)
        made == AccountInit(file, remote, name, data.value[nm].budget, data.value[nm].currency)
        added == add_transaction(made.account, made.file, <<"T","e","a">>, amountEntry.value, date)
    IN  IF data.raised # "none"
        THEN /\ result' = Pass("3", "none", "traceback") /\ shell' = "crashed"
             /\ UNCHANGED <<file, objs>>
        ELSE IF ~Found(data, name)
        THEN /\ result' = Pass("3", "none", "Account not found") /\ shell' = "menu"
             /\ UNCHANGED <<file, objs>>
        ELSE IF dateEntry # <<>> /\ ~IsIsoDate(dateEntry)
        THEN /\ result' = Pass("3", "none", "Invalid date format") /\ shell' = "menu"
             /\ UNCHANGED <<file, objs>>
        ELSE IF ~amountEntry.numeric
        THEN /\ result' = Pass("3", "none", "Invalid amount") /\ shell' = "menu"
             /\ UNCHANGED <<file, objs>>
        ELSE IF made.raised # "none"
        THEN /\ result' = Pass("3", made.raised, "traceback") /\ shell' = "crashed"
             /\ UNCHANGED <<file, objs>>
        ELSE /\ file' = added.file
             /\ objs' = DictSet(objs, 1, added.account)
             /\ IF added.raised # "none"
                THEN result' = Pass("3", "none", "traceback") /\ shell' = "crashed"
                ELSE result' = Pass("3", "none", "Transaction added") /\ shell' = "menu"

\* Choice 4 (lines 150-157).
ShellView(name) ==
    LET data == load_data(file)
        nm == Lower(name)
        made == AccountInit(file, remote, name, data.value[nm].budget, data.value[nm].currency)
    IN  IF data.raised # "none"
        THEN /\ result' = Pass("4", "none", "traceback") /\ shell' = "crashed"
             /\ UNCHANGED <<file, objs>>
        ELSE IF ~Found(data, name)
        THEN /\ result' = Pass("4", "none", "Account not found") /\ shell' = "menu"
             /\ UNCHANGED <<file, objs>>
        ELSE IF made.raised # "none"
        THEN /\ result' = Pass("4", made.raised, "traceback") /\ shell' = "crashed"
             /\ UNCHANGED <<file, objs>>
        ELSE /\ result' = Pass("4", "none", balance(made.account)) /\ shell' = "menu"
             /\ file' = made.file
             /\ objs' = DictSet(objs, 1, made.account)

\* One pass of the while loop of main() is made.
Prompted ==
    /\ shell = "menu"
    /\ Called
    /\ UNCHANGED <<remote, journal>>
    /\ NoProcesses

Choice1 == Prompted /\ \E e \in CreateEntries : ShellCreate(e)

Choice2 == Prompted /\ ShellList

Choice3 ==
    /\ Prompted
    /\ \E n \in NameEntries, d \in DateEntries, a \in AmountEntries : ShellAdd(Strip(n), d, a)

Choice4 == Prompted /\ \E n \in NameEntries : ShellView(Strip(n))

\* Choice 5 (lines 159-161).
Choice5 ==
    /\ Prompted
    /\ result' = Pass("5", "none", "Goodbye")
    /\ shell' = "exited"
    /\ UNCHANGED <<file, objs>>

\* Anything else (lines 163-164).
ChoiceOther ==
    /\ Prompted
    /\ result' = Pass("other", "none", "Invalid choice")
    /\ UNCHANGED <<file, objs, shell>>

ShellSetRemote ==
    /\ \E r \in RemoteStates : SetRemote(r)
    /\ UNCHANGED <<file, objs, result, calls, journal, shell>>
    /\ NoProcesses

ShellNext ==
    \/ Choice1
    \/ Choice2
    \/ Choice3
    \/ Choice4
    \/ Choice5
    \/ ChoiceOther
    \/ ShellSetRemote

ShellSpec == Init /\ [][ShellNext]_vars

\* C6: whenever the Account constructor raises the invalid-currency error in
\* a menu action, the shell is back at its prompt: the loop has not ended.
C6_ShellCatches == result.raised = "ValueError" => shell = "menu"

\* The part of C6 that holds: the error raised under choice 1 is caught.
C6_CreateCatches == (result.op = "1" /\ result.raised = "ValueError") => shell = "menu"

\* ---------------------------------------------------------------- two processes

\* Two runs of the program share database.json.  Each works on an account of
\* its own: it constructs it and adds transactions to it.  Nothing locks the
\* file, so the steps of the two interleave at every file access: the read of
\* __init__ (line 28), the read of save_to_file (line 51), the truncating
\* open (line 58) and the dump (line 59).

Procs == {1, 2}

Other(p) == 3 - p

\* The arguments each process constructs its account with.
RaceArgs ==
    <<[name |-> <<"A">>, budget |-> 100, currency |-> <<"u","s","d">>],
      [name |-> <<"b">>, budget |-> 999, currency |-> <<"P","k","R">>]>>

RaceInit ==
    /\ file = MissingFile
    /\ remote = "unreachable"
    /\ objs = EmptyDict
    /\ result = NoCall
    /\ calls = 0
    /\ journal = <<>>
    /\ shell = "menu"
    /\ pc = [p \in Procs |-> "idle"]
    /\ local = [p \in Procs |-> [self |-> EmptyDict, data |-> EmptyDict]]
    /\ acked = EmptyDict
    /\ overlap = FALSE

\* Process p enters an operation: the other one may be inside one.
Enter(p) ==
    /\ pc[p] = "idle"
    /\ overlap' = (overlap \/ pc[Other(p)] # "idle")

\* Account.__init__ up to its call of save_to_file.
RaceConstruct(p) ==
    /\ Enter(p)
    /\ p \notin DOMAIN objs
    /\ LET made == InitFields(file, remote, RaceArgs[p].name, RaceArgs[p].budget,
                              RaceArgs[p].currency)
       IN  /\ result' = [op |-> "construct", slot |-> p, raised |-> made.raised]
           /\ local' = [local EXCEPT ![p].self = made.value]
           /\ pc' = [pc EXCEPT ![p] = IF made.raised = "none" THEN "load" ELSE "idle"]
    /\ UNCHANGED <<file, remote, objs, calls, journal, shell, acked>>

\* add_transaction up to its call of save_to_file.
RaceAdd(p) ==
    /\ Enter(p)
    /\ p \in DOMAIN objs
    /\ Len(objs[p].transactions) < MaxRaceTx
    /\ \E tx \in TxInputs :
          /\ result' = [op |-> "add", slot |-> p, raised |-> "none"]
          /\ local' = [local EXCEPT
                          ![p].self = Appended(objs[p], tx.description, tx.amount, tx.date)]
    /\ pc' = [pc EXCEPT ![p] = "load"]
    /\ UNCHANGED <<file, remote, objs, calls, journal, shell, acked>>

\* save_to_file, lines 51-56.
RaceLoad(p) ==
    /\ pc[p] = "load"
    /\ LET d == SaveData(local[p].self, file)
       IN  /\ result' = [result EXCEPT !.slot = p, !.raised = d.raised]
           /\ local' = [local EXCEPT ![p].data = d.value]
           /\ pc' = [pc EXCEPT ![p] = IF d.raised = "none" THEN "open" ELSE "idle"]
    /\ UNCHANGED <<file, remote, objs, calls, journal, shell, acked, overlap>>

\* save_to_file, line 58: open(FILE, 'w') truncates the file.
RaceOpen(p) ==
    /\ pc[p] = "open"
    /\ file' = FileOf("empty", EmptyDict)
    /\ pc' = [pc EXCEPT ![p] = "dump"]
    /\ UNCHANGED <<remote, objs, result, calls, journal, shell, local, acked, overlap>>

\* save_to_file, line 59: json.dump and the close.  The bytes go to the start
\* of the file.  When the other process has written since this one opened the
\* file, its bytes are overwritten from the start: the document of this
\* process is left when it is at least as long, and otherwise the tail of
\* the other document follows it, which is no JSON document.
RaceDump(p) ==
    /\ pc[p] = "dump"
    /\ \/ file' = WriteFile(local[p].data)
       \/ file.kind # "empty" /\ file' = FileOf("invalid_json", EmptyDict)
    /\ objs' = DictSet(objs, p, local[p].self)
    /\ acked' = DictSet(acked, local[p].self.name,
                        [budget |-> local[p].self.budget,
                         currency |-> local[p].self.currency,
                         transactions |-> local[p].self.transactions])
    /\ pc' = [pc EXCEPT ![p] = "idle"]
    /\ UNCHANGED <<remote, result, calls, journal, shell, local, overlap>>

RaceNext ==
    \/ \E p \in Procs : RaceConstruct(p)
    \/ \E p \in Procs : RaceAdd(p)
    \/ \E p \in Procs : RaceLoad(p)
    \/ \E p \in Procs : RaceOpen(p)
    \/ \E p \in Procs : RaceDump(p)

RaceSpec == RaceInit /\ [][RaceNext]_vars

AllIdle == \A p \in Procs : pc[p] = "idle"

\* Every operation has returned, and the file is not the store the completed
\* operations wrote: an account or a transaction one of them wrote is missing.
Lost ==
    /\ AllIdle
    /\ \E n \in DOMAIN acked :
          \/ file.kind # "object"
          \/ n \notin StoredNames(file)
          \/ file.data[n] # acked[n]

\* C8: no operation of the two processes ever raises, and what a completed
\* operation wrote is missing from the store only when operations of the two
\* processes interleaved; run one after the other they lose nothing.
C8_LostOnlyByInterleaving ==
    /\ result.raised = "none"
    /\ Lost => overlap

\* C8's case: both processes have constructed their account and added their
\* transaction, nothing was raised, the file is a well-formed store, and it
\* lacks what one of them wrote.
C8_Witness ==
    /\ AllIdle
    /\ result.raised = "none"
    /\ \A p \in Procs : p \in DOMAIN objs /\ Len(objs[p].transactions) = 1
    /\ file.kind = "object"
    /\ \E n \in DOMAIN acked : n \notin StoredNames(file) \/ file.data[n] # acked[n]

====
